---- MODULE Spec2Model ----
(***************************************************************************)
(* Grug: the recurring game-session scheduling core.                       *)
(*                                                                         *)
(* The model covers                                                        *)
(*   - grug/models_crud.py  get_or_create_next_game_session_event          *)
(*   - grug/scheduler.py    update_group_schedules (the schedule sync)     *)
(*   - grug/models_events.py the after_insert / after_update write hooks   *)
(*   - grug/reminders.py    game_session_reminder and its two senders      *)
(*   - grug/admin.py        the admin "send reminder" actions              *)
(*   - grug/api_routers/scheduler_api_router.py  pause / resume            *)
(* and the APScheduler job store as the collaborator those call.           *)
(*                                                                         *)
(* Time is discrete.  The recurrence rules used here match on even         *)
(* instants only, so a handler can run exactly on a match (now = match)    *)
(* or strictly between two instants of the grid (now odd); `now` is the    *)
(* value datetime.now() returns to the handler that runs.                  *)
(***************************************************************************)
EXTENDS Integers, FiniteSets, Sequences, TLC

\* ---------------------------------------------------------------- bounds
MaxTime == 5        \* the clock stops advancing here
MaxLead == 2        \* largest reminder lead (days before the event)
MaxDeleteId == 3    \* occurrences are deleted while the id sequence is below this
MaxCrashes == 2     \* crashes of the supervised task that are followed
MaxPeriod == 4      \* longest period of the rules given to the calculators
MaxRef == 9         \* latest reference time given to the calculators
MaxFires == 3       \* the fire times of an interval trigger that are compared
MaxTokenLife == 2   \* longest configured lifetime of an access token
MaxRequests == 2    \* concurrent callers of generate_ai_image
MaxChain == 3       \* nested write hooks that are followed

\* Event.attendance_reminder_days_before_event's default
DefaultLead == 2
\* Event.food_reminder_days_before_event's default
DefaultFoodLead == 3
\* Event.food_reminder_time's / attendance_reminder_time's default hour
DefaultReminderHour == 11

\* ---------------------------------------------------------------- values
Groups == {1, 2}
\* the group whose settings, schedules and occurrences the specifications
\* below exercise; the other group keeps its initial settings
Managed == {1}
\* the concurrent callers of get-or-create
Procs == {1, 2}

NoCron == [kind |-> "none"]
Cron(p, o) == [kind |-> "cron", period |-> p, offset |-> o]
\* the recurrence rules a group can be given
Crons == {Cron(2, 0), Cron(4, 0)}
\* a rule text that is not a crontab expression
Malformed == [kind |-> "malformed"]

NoTime == -1
NoRow == [id |-> 0]
NoSchedule == [id |-> <<"none", 0>>]

VARIABLES
    now,        \* the wall clock
    cron,       \* Group.game_session_cron_schedule, per group
    lead,       \* Group.game_session_reminder_days_before_event, per group
    track,      \* the food / attendance tracking flags, per group
    rows,       \* the occurrence table: records [id, group_id, timestamp]
    nextId,     \* the table's id sequence
    scheds,     \* the job store's schedules table
    pc,         \* per caller of get-or-create: where it is
    pend,       \* per caller: the row it is about to insert
    ret,        \* per caller: what the call returned
    last,       \* what the last completed operation did (observation only)
    groups,     \* the ids of the rows of the groups table
    ready,      \* what the wait loops poll: discord (client.is_ready()) and
                \* scheduler (scheduler.state is RunState.started)
    wpc,        \* per wait loop: idle, loop, proceeded or timeout
    polls,      \* per wait loop: the polls that found the condition false
    seen,       \* per wait loop: what its last look at the condition saw
    bg,         \* the supervised background task (the Discord bot's task)
    hook,       \* the write hook that is running, and the task it spawned
    calc,       \* the last call of a trigger calculator: its inputs and result
    auth,       \* the admin UI's session and the last call of its backend
    slept,      \* the wait loops that have polled in the current second
    sess,       \* the database session of the last reminder dispatch
    chain,      \* the write hooks that wait for their portal, outermost first
    img         \* the image requests of the day and the requesters' positions

\* the scheduling core
core == <<now, cron, lead, track, rows, nextId, scheds, pc, pend, ret, last>>

\* the wait loops
waitvars == <<ready, wpc, polls, seen>>

\* the state outside the scheduling core, without the groups table
more == <<sess, chain, img>>
rest == <<waitvars, bg, hook, calc, auth, slept, more>>

\* the state outside the scheduling core
aux == <<groups, rest>>

vars == <<now, cron, lead, track, rows, nextId, scheds, pc, pend, ret, last,
          aux>>

\* ------------------------------------------------------- trigger calculator
\* CronTrigger.next() of a fresh trigger: the first match after the reference
CronMatches(c, t) == t % c.period = c.offset
CronNext(c, t) ==
    CHOOSE u \in (t + 1)..(t + c.period) :
        /\ CronMatches(c, u)
        /\ \A v \in (t + 1)..(t + c.period) : CronMatches(c, v) => u <= v

\* Group.next_game_session_event: the rule's next time, None without a rule
next_game_session_event(c, t) ==
    IF c = NoCron THEN NoTime ELSE CronNext(c, t)

\* GameSessionEvent.reminder_datetime: days_before days ahead of the event
reminder_datetime(row, days_before) == row.timestamp - days_before

CronTrigger(c) == [type |-> "cron", period |-> c.period, offset |-> c.offset, run_time |-> NoTime]
DateTrigger(t) == [type |-> "date", period |-> 0, offset |-> 0, run_time |-> t]
NoTrigger == [type |-> "none"]
\* stands for the ValueError of CronTrigger.from_crontab
BadTrigger == [type |-> "raise"]

\* Group.game_session_cron_trigger: the rule as a trigger, None without a
\* rule; a text that is no crontab expression makes from_crontab raise
game_session_cron_trigger(c) ==
    IF c = NoCron THEN NoTrigger
    ELSE IF c = Malformed THEN BadTrigger
    ELSE CronTrigger(c)

\* Trigger.next() when the schedule is first stored at time t
TriggerFirst(trigger, t) ==
    IF trigger.type = "cron" THEN CronNext(trigger, t) ELSE trigger.run_time

\* the rule '0 17 * * 0' (every Sunday 17:00) with instants counted in hours
\* from Monday 2024-01-01 00:00
HoursPerWeek == 7 * 24
SundayAt17 == Cron(HoursPerWeek, 6 * 24 + 17)

\* the rules and reference times given to the cron calculators
CronRules ==
    {c \in [kind : {"cron"}, period : 1..MaxPeriod, offset : 0..(MaxPeriod - 1)] :
        c.offset < c.period}
        \cup {SundayAt17}
RefTimes == (0..MaxRef) \cup {10, 6 * 24 + 17}

\* (a search that starts on the reference itself)
get_next_from_reference(c, t) == t + ((c.offset - t) % c.period)

\* croniter(expr, start_time=t).get_next(): the first candidate is the unit
\* after t, and the distance from a candidate to the nearest match of the
\* fields is added to it
croniter_get_next(c, t) == (t + 1) + ((c.offset - (t + 1)) % c.period)

NoCalc == [fn |-> "none"]

\* ------------------------------------------------------------- admin auth
NoToken == [sub |-> "none"]
\* settings.admin_user, and a user of the database who is no admin
Users == {"admin", "member"}

\* create_access_token(username, expires_delta) at time t: `if expires_delta`
\* takes a delta of zero for none given
DefaultExpiry == 15
create_access_token(username, expires_delta, t) ==
    [sub |-> username,
     exp |-> IF expires_delta # 0 THEN t + expires_delta ELSE t + DefaultExpiry]

\* get_current_user(token) at time t, then get_current_active_user: the
\* user, or the HTTPException raised for an expired token
get_current_user(token, t) ==
    IF token.exp < t
    THEN [user |-> "none", err |-> "HTTPException 401"]
    ELSE [user |-> token.sub, err |-> "none"]

\* (a backend that answers False for whatever get_current_user raises)
authenticate_catching(token, t) ==
    IF token = NoToken THEN [out |-> "False", err |-> "none"]
    ELSE IF get_current_user(token, t).err # "none"
         THEN [out |-> "False", err |-> "none"]
         ELSE IF get_current_user(token, t).user = "admin"
              THEN [out |-> "True", err |-> "none"]
              ELSE [out |-> "raised", err |-> "HTTPException 403"]

\* AdminAuth.authenticate at time t for a session holding token
authenticate(token, t) ==
    IF token = NoToken THEN [out |-> "False", err |-> "none"]
    ELSE IF get_current_user(token, t).err # "none"
         THEN [out |-> "raised", err |-> get_current_user(token, t).err]
         ELSE IF get_current_user(token, t).user = "admin"
              THEN [out |-> "True", err |-> "none"]
              ELSE [out |-> "raised", err |-> "HTTPException 403"]

\* ------------------------------------------------- calendar interval rules
\* A date is the number of its day counted from 2024-01-01 (day 1); months
\* are numbered on from January 2024 (month 1).
NoDate == 0
IsFebruary(M) == M % 12 = 2
MonthLenAt(M) ==
    IF IsFebruary(M) THEN (IF M = 2 THEN 29 ELSE 28)
    ELSE IF (M % 12) \in {4, 6, 9, 11} THEN 30 ELSE 31

RECURSIVE DaysBefore(_)
DaysBefore(M) == IF M = 1 THEN 0 ELSE DaysBefore(M - 1) + MonthLenAt(M - 1)

\* date(year, month, day)
Date(M, d) == DaysBefore(M) + d
LastMonth == 12 * 5
MonthOf(o) ==
    CHOOSE M \in 1..LastMonth : DaysBefore(M) < o /\ o <= DaysBefore(M) + MonthLenAt(M)
DayOf(o) == o - DaysBefore(MonthOf(o))

\* RepeatInterval
RepeatIntervals == {"Days", "Weeks", "Months"}

\* Event._get_calendar_interval_trigger(minute, hour,
\* start_date_less_timedelta): a fresh CalendarIntervalTrigger; ev carries
\* event_schedule_start_datetime (start, hour), event_schedule_end_date,
\* event_schedule_repeat_every and event_schedule_repeat_interval
get_calendar_interval_trigger(ev, hour, less) ==
    [start |-> ev.start - less,
     end |-> ev.end,
     days |-> IF ev.interval = "Days" THEN ev.every
              ELSE IF ev.interval = "Weeks" THEN 7 * ev.every ELSE 0,
     months |-> IF ev.interval = "Months" THEN ev.every ELSE 0,
     hour |-> hour,
     last |-> NoDate]

\* Event.get_event_calendar_interval_trigger
get_event_calendar_interval_trigger(ev) ==
    get_calendar_interval_trigger(ev, ev.hour, 0)

\* Event.get_food_reminder_calendar_interval_trigger /
\* get_attendance_reminder_calendar_interval_trigger
get_reminder_calendar_interval_trigger(ev, days_before, reminder_hour) ==
    get_calendar_interval_trigger(ev, reminder_hour, days_before)

\* CalendarIntervalTrigger.next(), the month part: the day of the previous
\* date in the month `months` later, months without that day being skipped
RECURSIVE AddMonths(_, _, _)
AddMonths(M, d, months) ==
    IF d <= MonthLenAt(M + months) THEN Date(M + months, d)
    ELSE AddMonths(M + months, d, months)

\* CalendarIntervalTrigger.next(), before the end date is looked at: the
\* start date for a trigger that has not fired, else the previous date moved
\* on by the interval
NextDate(tr) ==
    IF tr.last = NoDate THEN tr.start
    ELSE IF tr.months = 0 THEN tr.last + tr.days
    ELSE AddMonths(MonthOf(tr.last), DayOf(tr.last), tr.months) + tr.days

ClipToEnd(tr, d) == IF tr.end # NoDate /\ d > tr.end THEN NoDate ELSE d

\* interval_trigger.next() as Event.get_next_food_event calls it at time r
\* on the trigger it has just made: the clock is not read
calendar_interval_next(tr, r) == ClipToEnd(tr, NextDate(tr))

\* the k-th date a trigger fires on
RECURSIVE NthFire(_, _)
FireAfter(tr, d, k) ==
    IF d = NoDate THEN NoDate ELSE NthFire([tr EXCEPT !.last = d], k - 1)
NthFire(tr, k) ==
    IF k = 1 THEN ClipToEnd(tr, NextDate(tr))
    ELSE FireAfter(tr, ClipToEnd(tr, NextDate(tr)), k)

\* the events given to the calculators
StartDates == {Date(1, 5), Date(3, 2), Date(3, 15)}
EndDates == {NoDate, Date(1, 8)}
Events ==
    [start : StartDates, hour : {17}, end : EndDates,
     every : 1..MaxPeriod, interval : RepeatIntervals]

\* ------------------------------------------------------------ job store
\* The schedule ids update_group_schedules derives from the group id
game_session_schedule_id(g) == <<"game_session_schedule", g>>
game_session_reminder_schedule_id(g) == <<"game_session_reminder_schedule", g>>

\* scheduler.get_schedule: the stored schedule; NoSchedule stands for
\* ScheduleLookupError
get_schedule(S, id) ==
    IF \E s \in S : s.id = id THEN CHOOSE s \in S : s.id = id ELSE NoSchedule

\* scheduler.add_schedule(..., conflict_policy=ConflictPolicy.replace):
\* a fresh unpaused schedule takes the place of any schedule of the same id
add_schedule(S, id, trigger, t) ==
    {s \in S : s.id # id} \cup
        {[id |-> id, trigger |-> trigger, paused |-> FALSE,
          next_fire_time |-> TriggerFirst(trigger, t)]}

\* scheduler.pause_schedule / unpause_schedule / remove_schedule
pause_schedule(S, id) ==
    {IF s.id = id THEN [s EXCEPT !.paused = TRUE] ELSE s : s \in S}
unpause_schedule(S, id) ==
    {IF s.id = id THEN [s EXCEPT !.paused = FALSE] ELSE s : s \in S}
remove_schedule(S, id) == {s \in S : s.id # id}

\* ------------------------------------------------- schedule sync, part 1
GroupTarget(g) == [kind |-> "group", id |-> g]
\* (a hook that hands over the group the written row belongs to)
OwnerTarget(row) == [kind |-> "group", id |-> row.group_id]
EventTarget(row) == [kind |-> "event", id |-> row.id]

\* update_group_schedules, lines 95-96: the schedule ids the body reads and
\* writes for the object bound to `group`
schedule_ids_of(target) ==
    {game_session_schedule_id(target.id),
     game_session_reminder_schedule_id(target.id)}

\* update_group_schedules, lines 95-138, for one element of `groups`: the
\* game session schedule.  target is the object bound to `group` (the write
\* hook also passes GameSessionEvent rows, which have none of the Group
\* attributes read here); c is its game_session_cron_schedule.
\* The result carries the schedules, the schedule object read at line 101
\* (gss) and the exception that ended the run, if any.
SyncSessionSchedule(S, target, c, t) ==
    LET sid == game_session_schedule_id(target.id)
        gss == get_schedule(S, sid)
        out(S2, e) == [scheds |-> S2, gss |-> gss, err |-> e]
        \* lines 122-138
        update(S2) ==
            IF target.kind # "group" THEN out(S2, "AttributeError")
            ELSE IF c = NoCron
                 THEN IF gss # NoSchedule
                      THEN IF get_schedule(S2, sid) = NoSchedule
                           THEN out(S2, "ScheduleLookupError")
                           ELSE out(pause_schedule(S2, sid), "none")
                      ELSE out(S2, "none")
                 ELSE IF game_session_cron_trigger(c) = BadTrigger
                      THEN out(S2, "ValueError")
                      ELSE out(add_schedule(S2, sid,
                                            game_session_cron_trigger(c), t),
                               "none")
    IN  IF gss # NoSchedule
        THEN IF gss.trigger.type = "cron"
             THEN \* lines 106-109: has the group's schedule changed?
                  IF target.kind # "group" \/ game_session_cron_trigger(c) = NoTrigger
                  THEN out(S, "AttributeError")
                  ELSE IF game_session_cron_trigger(c) = BadTrigger
                  THEN out(S, "ValueError")
                  ELSE IF gss.next_fire_time
                              # TriggerFirst(game_session_cron_trigger(c), t)
                       THEN update(S)
                       ELSE out(S, "none")
             ELSE update(remove_schedule(S, sid))
        ELSE update(S)

\* models_events._update_group_schedules on a GameSessionEvent write: the
\* row itself is handed to update_group_schedules as `group`; whatever the
\* task raises stays in the portal's future
after_insert_event(S, row) ==
    SyncSessionSchedule(S, EventTarget(row), NoCron, 0).scheds

\* ------------------------------------------------- occurrence repository
\* the query of get_or_create_next_game_session_event: the group's
\* occurrences with timestamp >= now
FutureOccurrences(R, g, t) == {r \in R : r.group_id = g /\ r.timestamp >= t}

\* (a wrong sort order: the last of the future occurrences)
Latest(F) == CHOOSE r \in F : \A q \in F : r.timestamp >= q.timestamp

\* .order_by(GameSessionEvent.timestamp), first element
Earliest(F) == CHOOSE r \in F : \A q \in F : r.timestamp <= q.timestamp

\* (the table without its unique index)
NoUniqueIndex(R, g, ts) == FALSE

\* the unique index on (event_id, event_date) of the occurrence table
UniqueIndexViolated(R, g, ts) ==
    \E r \in R : r.group_id = g /\ r.timestamp = ts

\* (the row handed back without being stored)
InsertWithoutCommit(st, g, ts) ==
    [st EXCEPT !.ret = [id |-> st.nextId, group_id |-> g, timestamp |-> ts],
               !.raised = "none"]

\* session.add(event_occurrence); await session.commit(): the row is stored
\* unless the unique index rejects it (IntegrityError, raised to the caller);
\* a stored row runs the after_insert hook
InsertOccurrence(st, g, ts) ==
    IF UniqueIndexViolated(st.rows, g, ts)
    THEN [st EXCEPT !.ret = NoRow, !.raised = "IntegrityError"]
    ELSE LET row == [id |-> st.nextId, group_id |-> g, timestamp |-> ts]
         IN  [st EXCEPT !.rows = @ \cup {row}, !.nextId = @ + 1,
                        !.scheds = after_insert_event(@, row),
                        !.ret = row, !.raised = "none"]

\* get_or_create_next_game_session_event run without interruption.
\* st carries rows, nextId, scheds; the result adds ret and raised.
get_or_create_next_game_session_event(st, g, c, t) ==
    LET future == FutureOccurrences(st.rows, g, t)
        s0 == [rows |-> st.rows, nextId |-> st.nextId, scheds |-> st.scheds,
               ret |-> NoRow, raised |-> "none"]
    IN  IF future = {}
        THEN IF next_game_session_event(c, t) = NoTime
             THEN s0
             ELSE InsertOccurrence(s0, g, next_game_session_event(c, t))
        ELSE [s0 EXCEPT !.ret = Earliest(future)]

\* ------------------------------------------------- schedule sync, part 2
\* update_group_schedules, lines 151-166: the decision on the reminder
\* schedule.  a is the result of SyncSessionSchedule, grs the reminder
\* schedule read at lines 141-146, goc the result of the get-or-create call
\* of line 149; d is the group's game_session_reminder_days_before_event.
UpdateReminderSchedule(a, grs, goc, g, c, d, t) ==
    [rows |-> goc.rows, nextId |-> goc.nextId, next |-> goc.ret, called |-> TRUE,
     scheds |->
         IF /\ goc.raised = "none"
            /\ goc.ret # NoRow
            /\ \/ grs = NoSchedule /\ c # NoCron
               \/ /\ a.gss # NoSchedule
                  /\ a.gss.next_fire_time # reminder_datetime(goc.ret, d)
         THEN add_schedule(goc.scheds, game_session_reminder_schedule_id(g),
                           DateTrigger(reminder_datetime(goc.ret, d)), t)
         ELSE goc.scheds,
     err |->
         IF goc.raised # "none" THEN goc.raised
         ELSE IF goc.ret = NoRow /\ grs = NoSchedule /\ c # NoCron
              THEN "AttributeError"
              ELSE "none"]

\* update_group_schedules, lines 140-166: the reminder schedule of the next
\* game session event
SyncReminderSchedule(st, a, g, c, d, t) ==
    UpdateReminderSchedule(
        a,
        get_schedule(a.scheds, game_session_reminder_schedule_id(g)),
        get_or_create_next_game_session_event(
            [rows |-> st.rows, nextId |-> st.nextId, scheds |-> a.scheds],
            g, c, t),
        g, c, d, t)

\* update_group_schedules, after the game session schedule (a): an exception
\* there ends the body
AfterSessionSchedule(st, a, g, c, d, t) ==
    IF a.err # "none"
    THEN [rows |-> st.rows, nextId |-> st.nextId, scheds |-> a.scheds,
          err |-> a.err, next |-> NoRow, called |-> FALSE]
    ELSE SyncReminderSchedule(st, a, g, c, d, t)

\* update_group_schedules for one group object: the body of the loop.
\* st carries rows, nextId, scheds; the result adds err (the exception that
\* ended the body), next (the next game session event) and called (whether
\* get-or-create was reached).
update_group_schedules_body(st, g, c, d, t) ==
    AfterSessionSchedule(
        st, SyncSessionSchedule(st.scheds, GroupTarget(g), c, t), g, c, d, t)

\* update_group_schedules(group_id=g), lines 85-87: the group is selected by
\* id among the rows G of the groups table; no row, no loop iteration
update_group_by_id(st, G, g, c, d, t) ==
    IF g \in G
    THEN update_group_schedules_body(st, g, c, d, t)
    ELSE [rows |-> st.rows, nextId |-> st.nextId, scheds |-> st.scheds,
          err |-> "none", next |-> NoRow, called |-> FALSE]

\* update_group_schedules(): `for group in groups`, in id order; an exception
\* in one group's body (r) ends the whole call
RECURSIVE update_all_groups(_, _, _, _, _)
NextGroup(r, todo, C, D, t) ==
    IF r.err # "none" THEN r ELSE update_all_groups(r, todo, C, D, t)

MinGroup(todo) == CHOOSE x \in todo : \A y \in todo : x <= y

update_all_groups(st, todo, C, D, t) ==
    IF todo = {} THEN [rows |-> st.rows, nextId |-> st.nextId,
                       scheds |-> st.scheds, err |-> "none", next |-> NoRow,
                       called |-> FALSE]
    ELSE NextGroup(
             update_group_schedules_body(
                 st, MinGroup(todo), C[MinGroup(todo)], D[MinGroup(todo)], t),
             todo \ {MinGroup(todo)}, C, D, t)

\* the groups whose body the loop of update_group_schedules() over todo runs
\* to its end: the loop stops at the first body that raises
RECURSIVE groups_reached(_, _, _, _, _)
ReachedAfter(r, g, todo, C, D, t) ==
    IF r.err # "none" THEN {}
    ELSE {g} \cup groups_reached(r, todo \ {g}, C, D, t)

groups_reached(st, todo, C, D, t) ==
    IF todo = {} THEN {}
    ELSE ReachedAfter(
             update_group_schedules_body(
                 st, MinGroup(todo), C[MinGroup(todo)], D[MinGroup(todo)], t),
             MinGroup(todo), todo, C, D, t)

\* ------------------------------------------------------ reminder dispatch
\* reminders.send_attendance_reminder / send_food_reminder after the lookup
\* (goc): return if there is no next event, else send to Discord (sendOk:
\* whether guild_channel.send returns or raises)
SendToChannel(goc, sendOk) ==
    [rows |-> goc.rows, nextId |-> goc.nextId, scheds |-> goc.scheds,
     outcome |-> IF goc.raised # "none" THEN "raised"
                 ELSE IF goc.ret = NoRow THEN "skipped"
                 ELSE IF sendOk THEN "sent" ELSE "raised"]

\* reminders.send_attendance_reminder / send_food_reminder share this shape:
\* look the next event up (creating it), then send
SendReminder(st, g, c, t, sendOk) ==
    SendToChannel(get_or_create_next_game_session_event(st, g, c, t), sendOk)

\* reminders.game_session_reminder after the attendance reminder (a): an
\* exception of it ends the call, else the food reminder (f) has run
FoodAfterAttendance(a, f) ==
    IF a.outcome = "raised"
    THEN [rows |-> a.rows, nextId |-> a.nextId, scheds |-> a.scheds,
          att |-> a.outcome, food |-> "not_attempted"]
    ELSE [rows |-> f.rows, nextId |-> f.nextId, scheds |-> f.scheds,
          att |-> a.outcome, food |-> f.outcome]

AttendanceThenFood(a, g, c, t, foodOk) ==
    FoodAfterAttendance(a, SendReminder(a, g, c, t, foodOk))

\* reminders.game_session_reminder: the attendance reminder, then the food
\* reminder
game_session_reminder(st, g, c, t, attOk, foodOk) ==
    AttendanceThenFood(SendReminder(st, g, c, t, attOk), g, c, t, foodOk)

\* game_session_reminder(group_id=g) as the reminder schedule calls it: with
\* no row of that id in the groups table G, the get-or-create call of the
\* attendance reminder raises ValueError (models_crud.py, lines 108-110)
game_session_reminder_by_id(st, G, g, c, t, attOk, foodOk) ==
    IF g \in G
    THEN game_session_reminder(st, g, c, t, attOk, foodOk)
    ELSE [rows |-> st.rows, nextId |-> st.nextId, scheds |-> st.scheds,
          att |-> "raised", food |-> "not_attempted"]

\* what send_discord_food_reminder / send_discord_attendance_reminder can do
\* when called: send the message, raise while sending, or raise TimeoutError
\* out of wait_for_discord_to_start
Colls == {"sent", "raised", "timeout"}

\* EventOccurrence.event.enable_<kind>_discord_reminders: the flag of the
\* parent that switches the reminders of kind k
enable_discord_reminders(T, occ, k) ==
    IF occ = NoRow THEN FALSE ELSE T[occ.group_id][k]

\* select(EventOccurrence).where(EventOccurrence.id == id) ... one_or_none()
LookupOccurrence(R, id) ==
    IF \E r \in R : r.id = id THEN CHOOSE r \in R : r.id = id ELSE NoRow

\* (a dispatcher that lets the missing row fail)
send_reminder_raising_on_missing(occ, enabled, t, coll) ==
    IF occ = NoRow THEN "raised"
    ELSE IF occ.timestamp < t THEN "stale"
    ELSE IF enabled THEN coll ELSE "disabled"

\* (a dispatcher without the check of the occurrence's time)
send_reminder_ignoring_time(occ, enabled, t, coll) ==
    IF occ = NoRow THEN "not_found"
    ELSE IF enabled THEN coll ELSE "disabled"

\* utils.food.send_food_reminder / utils.attendance.send_attendance_reminder:
\* the dispatch for one occurrence (occ; NoRow if the id is not found);
\* enabled is the parent's enable_<kind>_discord_reminders flag, coll what
\* the collaborator does if it is called
send_reminder_for_occurrence(occ, enabled, t, coll) ==
    IF occ = NoRow THEN "not_found"
    ELSE IF occ.timestamp < t THEN "stale"
    ELSE IF enabled THEN coll ELSE "disabled"

\* settings.openai_image_daily_generation_limit
DefaultImageLimit == 25

\* generate_ai_image, lines 69-73: the requests left for today and the test
\* `if remaining_image_requests and remaining_image_requests <= 0`, in which
\* a remaining count of 0 is false
remaining_image_requests(limit, count) == limit - count
limit_exceeded(remaining) == remaining # 0 /\ remaining <= 0

\* the session of a dispatch: given by the caller or opened by the dispatcher
\* (opened), and whether the dispatcher closed it
NoSession == [given |-> FALSE, opened |-> FALSE, closed |-> FALSE]

\* send_food_reminder / send_attendance_reminder, lines 16-19 and 39-41:
\* close_session_at_end is set when no session is given; the close stands
\* after the collaborator's call, behind the two early returns
session_of_dispatch(given, o) ==
    [given |-> given, opened |-> ~given,
     closed |-> ~given /\ o \in {"sent", "disabled"}]

\* (a dispatcher that catches what the collaborator raises)
DispatchSwallowed(o) == [outcome |-> o, err |-> "none"]

\* how a call of the dispatcher ends for its caller: nothing stands between
\* the awaited collaborator and the caller, so what it raises is raised
DispatchResult(o) ==
    [outcome |-> o,
     err |-> IF o = "raised" THEN "DiscordError"
             ELSE IF o = "timeout" THEN "TimeoutError"
             ELSE "none"]

\* send_food_reminder(event_occurrence_id=id) / send_attendance_reminder(...)
dispatch_reminder(R, T, id, k, t, coll) ==
    DispatchResult(
        send_reminder_for_occurrence(
            LookupOccurrence(R, id),
            enable_discord_reminders(T, LookupOccurrence(R, id), k), t, coll))

\* the admin action after get-or-create (goc) and the dispatch (o)
AdminActionResult(goc, o) ==
    [rows |-> goc.rows, nextId |-> goc.nextId, scheds |-> goc.scheds,
     none |-> goc.raised = "none" /\ goc.ret = NoRow,
     err |-> IF goc.raised # "none" THEN goc.raised
             ELSE IF goc.ret = NoRow
                  THEN \* next_event_occurrence.id on None
                       "AttributeError"
                  ELSE DispatchResult(o).err,
     outcome |-> IF goc.raised # "none" \/ goc.ret = NoRow THEN "none" ELSE o]

DispatchFor(goc, enabled, t, coll) ==
    AdminActionResult(
        goc, send_reminder_for_occurrence(goc.ret, enabled, t, coll))

\* admin.EventAdmin.send_food_reminder / send_attendance_reminder for one
\* primary key: get-or-create the next occurrence, then dispatch for its id
admin_send_reminder(st, g, c, enabled, t, coll) ==
    DispatchFor(get_or_create_next_game_session_event(st, g, c, t),
                enabled, t, coll)

\* ------------------------------------------------------------ wait loops
\* the conditions that are waited for
Conds == {"discord", "scheduler"}

\* the three wait loops
Waits == {"wait_for_discord_to_start", "start_scheduler", "on_ready"}

\* wait_for_discord_to_start(timeout=10)
DiscordTimeout == 10
\* start_scheduler(discord_bot_startup_timeout=15)
DiscordBotStartupTimeout == 15
\* on_ready: for second in range(10)
OnReadyAttempts == 10

MaxPolls(w) ==
    IF w = "wait_for_discord_to_start" THEN DiscordTimeout
    ELSE IF w = "start_scheduler" THEN DiscordBotStartupTimeout
    ELSE OnReadyAttempts

\* what the loop of w polls
WaitsFor(w) == IF w = "on_ready" THEN "scheduler" ELSE "discord"

\* (a loop that goes on when its attempts are used up)
ExhaustedProceeds(w, cond, n) == [pc |-> "proceeded", polls |-> n, seen |-> cond]

\* the attempts are used up: wait_for_discord_to_start raises, start_scheduler
\* raises on its timed_out flag, on_ready looks at the scheduler's state once
\* more and raises if it is still not started
Exhausted(w, cond, n) ==
    IF w = "on_ready" /\ cond
    THEN [pc |-> "proceeded", polls |-> n, seen |-> TRUE]
    ELSE [pc |-> "timeout", polls |-> n, seen |-> IF w = "on_ready" THEN cond ELSE FALSE]

\* the loop of w from one await to the next, n polls done, the condition
\* being cond now: leave the loop if it holds, else sleep a second
WaitIteration(w, cond, n) ==
    IF n < MaxPolls(w)
    THEN IF cond
         THEN [pc |-> "proceeded", polls |-> n, seen |-> TRUE]
         ELSE [pc |-> "loop", polls |-> n + 1, seen |-> FALSE]
    ELSE Exhausted(w, cond, n)

\* ------------------------------------------------- background supervision
\* how a task can end
Ends == {"exception", "normal", "cancelled"}

\* (a done callback that starts the task again however it ended)
on_done_reinit_always(how, cb) == [reinit |-> TRUE, err |-> "none"]

\* track_background_task.on_done_callback for a task that ended as how, cb
\* telling whether an on_error_callback was given: t.exception() raises
\* CancelledError for a cancelled task, is the exception of a crashed one
\* and None otherwise
on_done_callback(how, cb) ==
    IF how = "cancelled" THEN [reinit |-> FALSE, err |-> "CancelledError"]
    ELSE IF how = "exception"
         THEN IF cb THEN [reinit |-> TRUE, err |-> "none"]
              ELSE [reinit |-> FALSE, err |-> "BackgroundTaskError"]
         ELSE [reinit |-> FALSE, err |-> "none"]

\* -------------------------------------------------------------- write hook
NoHook == [pc |-> "idle", g |-> 0, task |-> "none"]

\* leaving `with start_blocking_portal()`: the portal is stopped without
\* cancelling and its thread is joined, which is over when the spawned task is
PortalJoined(task) == task = "done"

\* ------------------------------------------------------------------ state
Cur == [rows |-> rows, nextId |-> nextId, scheds |-> scheds]

Kinds == {"food", "attendance"}
\* the callers of generate_ai_image that are followed
Requesters == 1..MaxRequests
NoPend == [g |-> 0, ts |-> NoTime]

\* what the last operation was and how it ended: err is the exception it
\* ended with, none tells that its get-or-create call returned None, att and
\* food are the outcomes of the two reminders it dispatched
Obs(op, g, err, none, att, food) ==
    [op |-> op, g |-> g, err |-> err, none |-> none, att |-> att, food |-> food]

Init ==
    /\ now = 0
    /\ cron = [g \in Groups |-> NoCron]
    /\ lead = [g \in Groups |-> DefaultLead]
    /\ track = [g \in Groups |-> [k \in Kinds |-> TRUE]]
    /\ rows = {}
    /\ nextId = 1
    /\ scheds = {}
    /\ pc = [p \in Procs |-> "idle"]
    /\ pend = [p \in Procs |-> NoPend]
    /\ ret = [p \in Procs |-> NoRow]
    /\ last = Obs("init", 0, "none", FALSE, "none", "none")
    /\ groups = Groups
    /\ ready = [c \in Conds |-> FALSE]
    /\ wpc = [w \in Waits |-> "idle"]
    /\ polls = [w \in Waits |-> 0]
    /\ seen = [w \in Waits |-> FALSE]
    /\ bg = [state |-> "none", inits |-> 0, crashes |-> 0, ended |-> "none"]
    /\ hook = NoHook
    /\ calc = NoCalc
    /\ slept = {}
    /\ sess = NoSession
    /\ chain = <<>>
    /\ img = [count |-> 0, pc |-> [p \in Requesters |-> "idle"],
              seen |-> [p \in Requesters |-> 0]]
    /\ auth = [token |-> NoToken, op |-> "none", at |-> 0, out |-> "none",
               err |-> "none"]

\* time passes
Tick ==
    /\ now < MaxTime
    /\ now' = now + 1
    /\ last' = Obs("tick", 0, "none", FALSE, "none", "none")
    /\ UNCHANGED <<aux, cron, lead, track, rows, nextId, scheds, pc, pend, ret>>

\* a run of update_group_schedules ended with result r: its writes, and what
\* is observed of it
SyncDone(op, g, r) ==
    /\ rows' = r.rows
    /\ nextId' = r.nextId
    /\ scheds' = r.scheds
    /\ last' = Obs(op, g, r.err, r.called /\ r.next = NoRow, "none", "none")

\* the after_update hook of a Group write: update_group_schedules(None, group)
\* on the written object; what the task raises never reaches the writer
GroupWritten(op, g, C, D, T) ==
    /\ g \in groups
    /\ cron' = C
    /\ lead' = D
    /\ track' = T
    /\ SyncDone(op, g, update_group_schedules_body(Cur, g, C[g], D[g], now))
    /\ UNCHANGED <<aux, now, pc, pend, ret>>

\* update_game_session_schedule (or the admin form): a new rule, or none
UpdateGameSessionSchedule(g, c) ==
    /\ c # cron[g]
    /\ GroupWritten("set_cron", g, [cron EXCEPT ![g] = c], lead, track)

\* update_game_session_reminder (or the admin form): a new days_prior
UpdateGameSessionReminder(g, d) ==
    /\ d # lead[g]
    /\ GroupWritten("set_reminder", g, cron, [lead EXCEPT ![g] = d], track)

\* the admin form: food or attendance tracking switched on or off
SetTracking(g, k, v) ==
    /\ v # track[g][k]
    /\ GroupWritten("set_tracking", g, cron, lead, [track EXCEPT ![g][k] = v])

\* on_ready: update_group_schedules() over all groups
OnReady ==
    /\ SyncDone("sync_all", 0, update_all_groups(Cur, groups, cron, lead, now))
    /\ UNCHANGED <<aux, now, cron, lead, track, pc, pend, ret>>

\* The job store runs a due, unpaused schedule: its next fire time moves to
\* the trigger's first time after now (a schedule whose trigger has none is
\* finished and leaves the store), and its callback runs.
Due(s) == ~s.paused /\ s.next_fire_time <= now

\* the game session schedule fires: update_group_schedules(group_id=g)
FireGameSessionSchedule(g) ==
    \E s \in scheds :
        /\ s.id = game_session_schedule_id(g)
        /\ Due(s)
        /\ SyncDone("fire_session", g,
               update_group_by_id(
                   [rows |-> rows, nextId |-> nextId,
                    scheds |-> (scheds \ {s}) \cup
                        {[s EXCEPT !.next_fire_time = CronNext(s.trigger, now)]}],
                   groups, g, cron[g], lead[g], now))
        /\ UNCHANGED <<aux, now, cron, lead, track, pc, pend, ret>>

\* a run of game_session_reminder ended with result r
ReminderDone(op, g, r) ==
    /\ rows' = r.rows
    /\ nextId' = r.nextId
    /\ scheds' = r.scheds
    /\ last' = Obs(op, g,
                   IF "raised" \in {r.att, r.food} THEN "DiscordError" ELSE "none",
                   r.att = "skipped", r.att, r.food)

\* the reminder schedule fires: game_session_reminder(group_id=g)
FireGameSessionReminder(g, attOk, foodOk) ==
    \E s \in scheds :
        /\ s.id = game_session_reminder_schedule_id(g)
        /\ Due(s)
        /\ ReminderDone("fire_reminder", g,
               game_session_reminder_by_id(
                   [rows |-> rows, nextId |-> nextId, scheds |-> scheds \ {s}],
                   groups, g, cron[g], now, attOk, foodOk))
        /\ UNCHANGED <<aux, now, cron, lead, track, pc, pend, ret>>

\* trigger_game_session_reminder: the same dispatch, on a user's command
TriggerGameSessionReminder(g, attOk, foodOk) ==
    /\ ReminderDone("trigger_reminder", g,
           game_session_reminder(Cur, g, cron[g], now, attOk, foodOk))
    /\ UNCHANGED <<aux, now, cron, lead, track, pc, pend, ret>>

\* the admin action ended with result r
AdminActionDone(g, k, r) ==
    /\ rows' = r.rows
    /\ nextId' = r.nextId
    /\ scheds' = r.scheds
    /\ last' = Obs("admin_send", g, r.err, r.none,
                   IF k = "attendance" THEN r.outcome ELSE "none",
                   IF k = "food" THEN r.outcome ELSE "none")

\* the admin action "Send Food Reminder" / "Send Attendance Reminder"
AdminSendReminder(g, k, coll) ==
    /\ AdminActionDone(g, k,
           admin_send_reminder(Cur, g, cron[g], track[g][k], now, coll))
    /\ UNCHANGED <<aux, now, cron, lead, track, pc, pend, ret>>

\* the dispatcher of kind k is called with the id of an occurrence that was
\* stored at some time before (last.g records the id)
DispatchReminder(id, k, coll) ==
    /\ id \in 1..(nextId - 1)
    /\ last' = Obs("dispatch", id,
                   dispatch_reminder(rows, track, id, k, now, coll).err, FALSE,
                   IF k = "attendance"
                   THEN dispatch_reminder(rows, track, id, k, now, coll).outcome
                   ELSE "none",
                   IF k = "food"
                   THEN dispatch_reminder(rows, track, id, k, now, coll).outcome
                   ELSE "none")
    /\ UNCHANGED <<aux, now, cron, lead, track, rows, nextId, scheds, pc, pend, ret>>

\* the same call with the session observed; given says whether the caller
\* passes its own session
SendReminderWithSession(id, k, coll, given) ==
    /\ id \in 1..(nextId - 1)
    /\ last' = Obs("dispatch", id,
                   dispatch_reminder(rows, track, id, k, now, coll).err, FALSE,
                   IF k = "attendance"
                   THEN dispatch_reminder(rows, track, id, k, now, coll).outcome
                   ELSE "none",
                   IF k = "food"
                   THEN dispatch_reminder(rows, track, id, k, now, coll).outcome
                   ELSE "none")
    /\ sess' = session_of_dispatch(
                   given, dispatch_reminder(rows, track, id, k, now, coll).outcome)
    /\ UNCHANGED <<groups, waitvars, bg, hook, calc, auth, slept, chain, img,
                   now, cron, lead, track, rows, nextId, scheds, pc, pend, ret>>

\* scheduler_api_router: pause / resume a schedule by id
PauseScheduleApi(id) ==
    /\ \E s \in scheds : s.id = id /\ ~s.paused
    /\ scheds' = pause_schedule(scheds, id)
    /\ last' = Obs("pause", id[2], "none", FALSE, "none", "none")
    /\ UNCHANGED <<aux, now, cron, lead, track, rows, nextId, pc, pend, ret>>

ResumeScheduleApi(id) ==
    /\ \E s \in scheds : s.id = id /\ s.paused
    /\ scheds' = unpause_schedule(scheds, id)
    /\ last' = Obs("resume", id[2], "none", FALSE, "none", "none")
    /\ UNCHANGED <<aux, now, cron, lead, track, rows, nextId, pc, pend, ret>>

\* A caller of get_or_create_next_game_session_event, interleaved with the
\* others at its awaits: first the queries and the decision ...
GocQuery(p, g) ==
    /\ pc[p] # "commit"
    /\ LET future == FutureOccurrences(rows, g, now)
           nxt == next_game_session_event(cron[g], now)
       IN  IF future # {}
           THEN /\ pc' = [pc EXCEPT ![p] = "done"]
                /\ ret' = [ret EXCEPT ![p] = Earliest(future)]
                /\ pend' = [pend EXCEPT ![p] = NoPend]
                /\ last' = Obs("goc_query", g, "none", FALSE, "none", "none")
           ELSE IF nxt = NoTime
           THEN /\ pc' = [pc EXCEPT ![p] = "done"]
                /\ ret' = [ret EXCEPT ![p] = NoRow]
                /\ pend' = [pend EXCEPT ![p] = NoPend]
                /\ last' = Obs("goc_query", g, "none", TRUE, "none", "none")
           ELSE /\ pc' = [pc EXCEPT ![p] = "commit"]
                /\ ret' = [ret EXCEPT ![p] = NoRow]
                /\ pend' = [pend EXCEPT ![p] = [g |-> g, ts |-> nxt]]
                /\ last' = Obs("goc_query", g, "none", FALSE, "none", "none")
    /\ UNCHANGED <<aux, now, cron, lead, track, rows, nextId, scheds>>

\* the commit of caller p ended with result r
CommitDone(p, r) ==
    /\ rows' = r.rows
    /\ nextId' = r.nextId
    /\ scheds' = r.scheds
    /\ ret' = [ret EXCEPT ![p] = r.ret]
    /\ pc' = [pc EXCEPT ![p] = IF r.raised = "none" THEN "done" ELSE "raised"]
    /\ last' = Obs("goc_commit", pend[p].g, r.raised, FALSE, "none", "none")

\* ... then the commit of the row it decided to insert
GocCommit(p) ==
    /\ pc[p] = "commit"
    /\ CommitDone(p, InsertOccurrence(
                         [rows |-> rows, nextId |-> nextId, scheds |-> scheds,
                          ret |-> NoRow, raised |-> "none"],
                         pend[p].g, pend[p].ts))
    /\ UNCHANGED <<aux, now, cron, lead, track, pend>>

\* A group is deleted (the admin's delete of a Group row).  Its occurrences go
\* with it (cascade); no listener is registered for deletes, so no sync runs
\* and the job store is not touched.
DeleteGroup(g) ==
    /\ g \in groups
    /\ groups' = groups \ {g}
    /\ rows' = {r \in rows : r.group_id # g}
    /\ cron' = [cron EXCEPT ![g] = NoCron]
    /\ lead' = [lead EXCEPT ![g] = DefaultLead]
    /\ track' = [track EXCEPT ![g] = [k \in Kinds |-> TRUE]]
    /\ last' = Obs("delete_group", g, "none", FALSE, "none", "none")
    /\ UNCHANGED <<rest, now, nextId, scheds, pc, pend, ret>>

\* An occurrence is deleted (the admin's delete of an occurrence row); again
\* no listener, no sync.
DeleteOccurrence(r) ==
    /\ r \in rows
    /\ nextId < MaxDeleteId
    /\ rows' = rows \ {r}
    /\ last' = Obs("delete_occurrence", r.group_id, "none", FALSE, "none", "none")
    /\ UNCHANGED <<aux, now, cron, lead, track, nextId, scheds, pc, pend, ret>>

ScheduleIds ==
    {game_session_schedule_id(g) : g \in Managed} \cup
    {game_session_reminder_schedule_id(g) : g \in Managed}

\* The scheduling core: group writes with their syncs, the job store firing
\* schedules, and the administrative pause / resume.
Next ==
    \/ Tick
    \/ \E g \in Managed, c \in Crons \cup {NoCron} : UpdateGameSessionSchedule(g, c)
    \/ \E g \in Managed, d \in 0..MaxLead : UpdateGameSessionReminder(g, d)
    \/ OnReady
    \/ \E g \in Managed : FireGameSessionSchedule(g)
    \/ \E g \in Managed, attOk \in BOOLEAN, foodOk \in BOOLEAN :
           FireGameSessionReminder(g, attOk, foodOk)
    \/ \E id \in ScheduleIds : PauseScheduleApi(id)
    \/ \E id \in ScheduleIds : ResumeScheduleApi(id)

Spec == Init /\ [][Next]_vars

\* Concurrent callers of get-or-create, interleaved at their awaits with each
\* other, with rule changes, reminder dispatch and the game session schedule
\* firing.
NextGoc ==
    \/ Tick
    \/ \E g \in Managed, c \in Crons \cup {NoCron} : UpdateGameSessionSchedule(g, c)
    \/ \E g \in Managed : FireGameSessionSchedule(g)
    \/ \E g \in Managed, attOk \in BOOLEAN, foodOk \in BOOLEAN :
           FireGameSessionReminder(g, attOk, foodOk)
    \/ \E p \in Procs, g \in Managed : GocQuery(p, g)
    \/ \E p \in Procs : GocCommit(p)

SpecGoc == Init /\ [][NextGoc]_vars

\* Reminder dispatch: the tracking flags, the reminder schedule firing, and
\* the reminders sent on a user's or an administrator's request.
NextDispatch ==
    \/ Tick
    \/ \E g \in Managed, c \in Crons \cup {NoCron} : UpdateGameSessionSchedule(g, c)
    \/ \E g \in Managed, k \in Kinds, v \in BOOLEAN : SetTracking(g, k, v)
    \/ \E g \in Managed : FireGameSessionSchedule(g)
    \/ \E g \in Managed, attOk \in BOOLEAN, foodOk \in BOOLEAN :
           FireGameSessionReminder(g, attOk, foodOk)
    \/ \E g \in Managed, attOk \in BOOLEAN, foodOk \in BOOLEAN :
           TriggerGameSessionReminder(g, attOk, foodOk)
    \/ \E g \in Managed, k \in Kinds, coll \in Colls :
           AdminSendReminder(g, k, coll)

SpecDispatch == Init /\ [][NextDispatch]_vars

\* The job store at work: it runs every schedule that is due and unpaused
\* (weak fairness of the two firing actions), while time passes and rules
\* change.
NextLive ==
    \/ Tick
    \/ \E g \in Managed, c \in Crons \cup {NoCron} : UpdateGameSessionSchedule(g, c)
    \/ \E g \in Managed : FireGameSessionSchedule(g)
    \/ \E g \in Managed, attOk \in BOOLEAN, foodOk \in BOOLEAN :
           FireGameSessionReminder(g, attOk, foodOk)

SpecLive ==
    /\ Init
    /\ [][NextLive]_vars
    /\ \A g \in Managed : WF_vars(FireGameSessionSchedule(g))

\* Deletion: groups and occurrences are deleted while rules change and the
\* job store goes on firing what it holds.
NextDelete ==
    \/ Tick
    \/ \E g \in Managed, c \in Crons \cup {NoCron} : UpdateGameSessionSchedule(g, c)
    \/ \E g \in Managed : FireGameSessionSchedule(g)
    \/ \E g \in Managed, attOk \in BOOLEAN, foodOk \in BOOLEAN :
           FireGameSessionReminder(g, attOk, foodOk)
    \/ \E g \in Managed : DeleteGroup(g)
    \/ \E r \in rows : DeleteOccurrence(r)

SpecDelete == Init /\ [][NextDelete]_vars

\* the Discord client connects or loses its connection
DiscordReadyChanges(v) ==
    /\ ready["discord"] # v
    /\ ready' = [ready EXCEPT !["discord"] = v]
    /\ UNCHANGED <<groups, more, slept, core, bg, hook, calc, auth, wpc, polls, seen>>

\* start_scheduler after its wait: async with scheduler: run_until_stopped()
SchedulerStarts ==
    /\ wpc["start_scheduler"] = "proceeded"
    /\ ~ready["scheduler"]
    /\ ready' = [ready EXCEPT !["scheduler"] = TRUE]
    /\ UNCHANGED <<groups, more, slept, core, bg, hook, calc, auth, wpc, polls, seen>>

\* a wait loop is entered: wait_for_discord_to_start by a reminder, on_ready
\* by the client's ready event, start_scheduler once by the main task group
StartWait(w) ==
    /\ wpc[w] # "loop"
    /\ w = "start_scheduler" => wpc[w] = "idle"
    /\ w = "on_ready" => ready["discord"]
    /\ wpc' = [wpc EXCEPT ![w] = "loop"]
    /\ polls' = [polls EXCEPT ![w] = 0]
    /\ seen' = [seen EXCEPT ![w] = FALSE]
    /\ UNCHANGED <<groups, more, slept, core, bg, hook, calc, auth, ready>>

WaitStepped(w, r) ==
    /\ wpc' = [wpc EXCEPT ![w] = r.pc]
    /\ polls' = [polls EXCEPT ![w] = r.polls]
    /\ seen' = [seen EXCEPT ![w] = r.seen]

WaitStepBody(w) ==
    /\ wpc[w] = "loop"
    /\ WaitStepped(w, WaitIteration(w, ready[WaitsFor(w)], polls[w]))
    /\ UNCHANGED <<groups, more, core, bg, hook, calc, auth, ready>>

\* the loop of w runs from one await to the next
WaitStep(w) == WaitStepBody(w) /\ UNCHANGED slept

\* the same with the seconds counted: asyncio.sleep(1) lets a loop poll once
\* in a second
TimedWaitStep(w) ==
    /\ w \notin slept
    /\ WaitStepBody(w)
    /\ slept' = slept \cup {w}

\* a second is over when every running loop has polled in it
SecondPasses ==
    /\ slept # {}
    /\ \A w \in Waits : wpc[w] = "loop" => w \in slept
    /\ slept' = {}
    /\ UNCHANGED <<groups, more, core, waitvars, bg, hook, calc, auth>>

\* The wait loops while the Discord client connects and disconnects.
NextWait ==
    \/ \E v \in BOOLEAN : DiscordReadyChanges(v)
    \/ SchedulerStarts
    \/ \E w \in Waits : StartWait(w)
    \/ \E w \in Waits : WaitStep(w)

\* Startup: main starts the Discord client and start_scheduler together;
\* the client's ready event runs on_ready; the two loops poll once a second.
NextStartup ==
    \/ \E v \in BOOLEAN : DiscordReadyChanges(v)
    \/ SchedulerStarts
    \/ \E w \in {"start_scheduler", "on_ready"} : StartWait(w)
    \/ \E w \in {"start_scheduler", "on_ready"} : TimedWaitStep(w)
    \/ SecondPasses

SpecStartup ==
    /\ Init /\ [][NextStartup]_vars
    /\ \A w \in Waits : WF_vars(TimedWaitStep(w))
    /\ WF_vars(SecondPasses) /\ WF_vars(SchedulerStarts)

\* the event loop resumes a sleeping coroutine when its second is over
SpecWait == Init /\ [][NextWait]_vars /\ \A w \in Waits : WF_vars(WaitStep(w))

\* init_discord_bot at startup: the bot's task is created and tracked
InitDiscordBot ==
    /\ bg.state = "none"
    /\ bg' = [state |-> "running", inits |-> 1, crashes |-> 0, ended |-> "none"]
    /\ UNCHANGED <<groups, more, slept, core, waitvars, hook, calc, auth>>

TaskEnded(how, r) ==
    bg' = [state |-> IF r.reinit THEN "running" ELSE "stopped",
           inits |-> bg.inits + (IF r.reinit THEN 1 ELSE 0),
           crashes |-> bg.crashes + (IF how = "exception" THEN 1 ELSE 0),
           ended |-> how]

\* the bot's task ends and its done callback runs; on_error_callback is
\* init_discord_bot, which creates and tracks a new task
TaskDone(how) ==
    /\ bg.state = "running"
    /\ how = "exception" => bg.crashes < MaxCrashes
    /\ TaskEnded(how, on_done_callback(how, TRUE))
    /\ last' = Obs("task_done", 0, on_done_callback(how, TRUE).err, FALSE,
                   "none", "none")
    /\ UNCHANGED <<groups, more, slept, waitvars, hook, calc, auth, now, cron, lead, track, rows, nextId,
                   scheds, pc, pend, ret>>

\* Supervision of the bot's task while schedules are made and fire.
NextSupervise ==
    \/ Tick
    \/ \E g \in Managed, c \in Crons \cup {NoCron} : UpdateGameSessionSchedule(g, c)
    \/ \E g \in Managed : FireGameSessionSchedule(g)
    \/ InitDiscordBot
    \/ \E how \in Ends : TaskDone(how)

SpecSupervise == Init /\ [][NextSupervise]_vars

\* a Group write is flushed and its after_update hook starts a portal and
\* spawns update_group_schedules(None, group) in it
HookEnter(g, c) ==
    /\ hook.pc = "idle"
    /\ g \in groups
    /\ c # cron[g]
    /\ cron' = [cron EXCEPT ![g] = c]
    /\ hook' = [pc |-> "in_portal", g |-> g, task |-> "queued"]
    /\ UNCHANGED <<groups, more, slept, waitvars, bg, calc, auth, now, lead, track, rows, nextId, scheds,
                   pc, pend, ret, last>>

\* the portal's event loop runs the spawned task; what it raises stays in
\* its future
PortalTaskRuns ==
    /\ hook.task = "queued"
    /\ SyncDone("hook_sync", hook.g,
                update_group_schedules_body(Cur, hook.g, cron[hook.g],
                                            lead[hook.g], now))
    /\ hook' = [hook EXCEPT !.task = "done"]
    /\ UNCHANGED <<groups, more, slept, waitvars, bg, calc, auth, now, cron, lead, track, pc, pend, ret>>

\* the hook leaves its with block and returns to the flush
HookReturn ==
    /\ hook.pc = "in_portal"
    /\ PortalJoined(hook.task)
    /\ hook' = NoHook
    /\ UNCHANGED <<groups, more, slept, core, waitvars, bg, calc, auth>>

\* a hook that has started its portal and queued its sync; row, gss and grs
\* are filled in when that sync reaches an insert
Frame(target) ==
    [target |-> target, pc |-> "queued", row |-> NoRow, gss |-> NoSchedule,
     grs |-> NoSchedule]

\* the rule and the lead the sync reads from the object it was given
RuleOf(target) == IF target.kind = "group" THEN cron[target.id] ELSE NoCron
LeadOf(target) == IF target.kind = "group" THEN lead[target.id] ELSE DefaultLead

Top == chain[Len(chain)]
SetTop(f) == [chain EXCEPT ![Len(chain)] = f]

\* a Group write is committed: its hook starts a portal, queues the sync and
\* waits
ChainWrite(g, c) ==
    /\ chain = <<>>
    /\ g \in groups
    /\ c # cron[g]
    /\ cron' = [cron EXCEPT ![g] = c]
    /\ chain' = <<Frame(GroupTarget(g))>>
    /\ UNCHANGED <<groups, waitvars, bg, hook, calc, auth, slept, sess, img,
                   now, lead, track, rows, nextId, scheds, pc, pend, ret, last>>

\* the sync of the innermost hook reaches session.add / commit of
\* get_or_create_next_game_session_event: the flush runs the after_insert
\* hook of the new row, which starts the next portal; the row is not yet
\* committed
ChainInsert(a, tg, ts) ==
    /\ Len(chain) < MaxChain
    /\ scheds' = a.scheds
    /\ nextId' = nextId + 1
    /\ chain' = Append(
           SetTop([Top EXCEPT
                      !.pc = "flushing",
                      !.row = [id |-> nextId, group_id |-> tg.id, timestamp |-> ts],
                      !.gss = a.gss,
                      !.grs = get_schedule(a.scheds,
                                           game_session_reminder_schedule_id(tg.id))]),
           Frame(EventTarget([id |-> nextId, group_id |-> tg.id, timestamp |-> ts])))
    /\ UNCHANGED <<rows, last>>

\* the sync of the innermost hook runs to its end without an insert
ChainSyncEnds(a, tg) ==
    /\ SyncDone("hook_sync", tg.id,
                AfterSessionSchedule(Cur, a, tg.id, RuleOf(tg), LeadOf(tg), now))
    /\ chain' = SetTop([Top EXCEPT !.pc = "done"])

ChainSyncFrom(a, tg, ts) ==
    IF /\ a.err = "none"
       /\ FutureOccurrences(rows, tg.id, now) = {}
       /\ ts # NoTime
       /\ ~UniqueIndexViolated(rows, tg.id, ts)
    THEN ChainInsert(a, tg, ts)
    ELSE ChainSyncEnds(a, tg)

\* the portal's thread runs the queued sync of the innermost hook
ChainSyncRuns ==
    /\ chain # <<>>
    /\ Top.pc = "queued"
    /\ ChainSyncFrom(SyncSessionSchedule(scheds, Top.target, RuleOf(Top.target), now),
                     Top.target, next_game_session_event(RuleOf(Top.target), now))
    /\ UNCHANGED <<groups, waitvars, bg, hook, calc, auth, slept, sess, img,
                   now, cron, lead, track, pc, pend, ret>>

\* the innermost hook's portal is joined and the hook returns: the flush
\* that ran it goes on and the commit of the outer sync completes
ChainHookReturns ==
    /\ chain # <<>>
    /\ PortalJoined(Top.pc)
    /\ IF Len(chain) = 1
       THEN chain' = <<>> /\ rows' = rows
       ELSE /\ rows' = rows \cup {chain[Len(chain) - 1].row}
            /\ chain' = [SubSeq(chain, 1, Len(chain) - 1)
                             EXCEPT ![Len(chain) - 1].pc = "committed"]
    /\ UNCHANGED <<groups, waitvars, bg, hook, calc, auth, slept, sess, img,
                   now, cron, lead, track, nextId, scheds, pc, pend, ret, last>>

\* the sync whose insert is committed goes on with the reminder schedule
ChainSyncResumes ==
    /\ chain # <<>>
    /\ Top.pc = "committed"
    /\ SyncDone("hook_sync", Top.target.id,
                UpdateReminderSchedule(
                    [scheds |-> scheds, gss |-> Top.gss, err |-> "none"],
                    Top.grs,
                    [rows |-> rows, nextId |-> nextId, scheds |-> scheds,
                     ret |-> Top.row, raised |-> "none"],
                    Top.target.id, RuleOf(Top.target), LeadOf(Top.target), now))
    /\ chain' = SetTop([Top EXCEPT !.pc = "done"])
    /\ UNCHANGED <<groups, waitvars, bg, hook, calc, auth, slept, sess, img,
                   now, cron, lead, track, pc, pend, ret>>

\* generate_ai_image up to its first await of the image API: the count of
\* today's requests is read and compared; a refused call raises ValueError
\* and is over
ImageCheck(p) ==
    /\ img.pc[p] = "idle"
    /\ img' = IF limit_exceeded(
                      remaining_image_requests(DefaultImageLimit, img.count))
              THEN img
              ELSE [img EXCEPT
                       !.seen[p] = remaining_image_requests(DefaultImageLimit,
                                                            img.count),
                       !.pc[p] = "calling"]
    /\ UNCHANGED <<groups, core, waitvars, bg, hook, calc, auth, slept, sess, chain>>

\* images.generate is called and answers, or raises (then nothing is stored)
ImageGenerate(p, ok) ==
    /\ img.pc[p] = "calling"
    /\ img' = IF ok THEN [img EXCEPT !.pc[p] = "generated"]
              ELSE [img EXCEPT !.pc[p] = "idle", !.seen[p] = 0]
    /\ UNCHANGED <<groups, core, waitvars, bg, hook, calc, auth, slept, sess, chain>>

\* session.add(dalle_image_request); await session.commit()
ImageRecord(p) ==
    /\ img.pc[p] = "generated"
    /\ img' = [img EXCEPT !.count = @ + 1, !.pc[p] = "idle", !.seen[p] = 0]
    /\ UNCHANGED <<groups, core, waitvars, bg, hook, calc, auth, slept, sess, chain>>

\* date.today() changes: no stored request is of the current day
NewDay ==
    /\ img.count > 0
    /\ img' = [img EXCEPT !.count = 0]
    /\ UNCHANGED <<groups, core, waitvars, bg, hook, calc, auth, slept, sess, chain>>

\* Concurrent calls of generate_ai_image over the days.
NextImage ==
    \/ \E p \in Requesters : ImageCheck(p)
    \/ \E p \in Requesters, ok \in BOOLEAN : ImageGenerate(p, ok)
    \/ \E p \in Requesters : ImageRecord(p)
    \/ NewDay

SpecImage == Init /\ [][NextImage]_vars

\* Group writes and the chains of hooks and syncs they start, while time
\* passes.
NextChain ==
    \/ Tick
    \/ \E g \in Managed, c \in Crons \cup {NoCron} : ChainWrite(g, c)
    \/ ChainSyncRuns
    \/ ChainHookReturns
    \/ ChainSyncResumes

\* every portal has a thread and an event loop of its own, and a thread that
\* waits for its portal goes on when the portal is joined
SpecChain ==
    /\ Init /\ [][NextChain]_vars
    /\ WF_vars(ChainSyncRuns) /\ WF_vars(ChainHookReturns)
    /\ WF_vars(ChainSyncResumes)

\* The write hook in steps, while time passes and the session job fires.
NextHook ==
    \/ Tick
    \/ \E g \in Managed, c \in Crons \cup {NoCron} : HookEnter(g, c)
    \/ PortalTaskRuns
    \/ HookReturn
    \/ \E g \in Managed : FireGameSessionSchedule(g)

\* the writer's thread goes on whenever it can; nothing bounds the time the
\* spawned sync takes
SpecHook == Init /\ [][NextHook]_vars /\ WF_vars(HookReturn)

\* The rule command with any text, well formed or not.
NextRule ==
    \/ Tick
    \/ \E g \in Managed, c \in Crons \cup {NoCron, Malformed} :
           UpdateGameSessionSchedule(g, c)
    \/ \E g \in Managed : FireGameSessionSchedule(g)

SpecRule == Init /\ [][NextRule]_vars

\* send_discord_food_reminder asks croniter for the next session after t
NextSessionByCroniter(c, t) ==
    /\ calc' = [fn |-> "croniter", rule |-> c, ref |-> t,
                out |-> croniter_get_next(c, t)]
    /\ UNCHANGED <<groups, more, slept, core, waitvars, bg, hook, auth>>

\* update_group_schedules asks a fresh trigger of the rule for its next time
NextFireByTrigger(c, t) ==
    /\ calc' = [fn |-> "trigger", rule |-> c, ref |-> t, out |-> CronNext(c, t)]
    /\ UNCHANGED <<groups, more, slept, core, waitvars, bg, hook, auth>>

\* The cron calculators over rules and reference times.
NextCron ==
    \/ \E c \in CronRules, t \in RefTimes : NextSessionByCroniter(c, t)
    \/ \E c \in CronRules, t \in RefTimes : NextFireByTrigger(c, t)

SpecCron == Init /\ [][NextCron]_vars

\* Event.get_next_food_event / get_next_attendance_event at time r: the
\* date of the next event
GetNextEventDate(ev, r) ==
    /\ calc' = [fn |-> "next_event", rule |-> ev, ref |-> r,
                out |-> calendar_interval_next(
                            get_event_calendar_interval_trigger(ev), r)]
    /\ UNCHANGED <<groups, more, slept, core, waitvars, bg, hook, auth>>

\* The next-event calculation over events and reference days.
NextInterval ==
    \E ev \in Events, r \in 1..MaxRef : GetNextEventDate(ev, r)

SpecInterval == Init /\ [][NextInterval]_vars

\* the k-th event of ev and the k-th firing of its reminder trigger with
\* days_before d and reminder time rh
ReminderInstant(ev, d, rh, k) ==
    /\ calc' = [fn |-> "reminder", rule |-> ev, lead |-> d, time_of_day |-> rh,
                k |-> k,
                occ |-> NthFire(get_event_calendar_interval_trigger(ev), k),
                out |-> NthFire(
                            get_reminder_calendar_interval_trigger(ev, d, rh), k),
                hour |-> get_reminder_calendar_interval_trigger(ev, d, rh).hour]
    /\ UNCHANGED <<groups, more, slept, core, waitvars, bg, hook, auth>>

\* The reminder triggers of events over leads and firings.
NextReminderInstant ==
    \E ev \in Events, d \in (0..MaxLead) \cup {DefaultFoodLead}, k \in 1..MaxFires :
        ReminderInstant(ev, d, DefaultReminderHour, k)

SpecReminderInstant == Init /\ [][NextReminderInstant]_vars

\* AdminAuth.login: with good credentials a token of the configured lifetime
\* is put into the session
AdminLogin(u, ok, life) ==
    /\ auth' = [token |-> IF ok THEN create_access_token(u, life, now)
                           ELSE auth.token,
                op |-> "login", at |-> now,
                out |-> IF ok THEN "True" ELSE "False", err |-> "none"]
    /\ UNCHANGED <<groups, more, slept, core, waitvars, bg, hook, calc>>

\* AdminAuth.logout
AdminLogout ==
    /\ auth' = [token |-> NoToken, op |-> "logout", at |-> now, out |-> "True",
                err |-> "none"]
    /\ UNCHANGED <<groups, more, slept, core, waitvars, bg, hook, calc>>

\* AdminAuth.authenticate
AdminAuthenticate ==
    /\ auth' = [token |-> auth.token, op |-> "authenticate", at |-> now,
                out |-> authenticate(auth.token, now).out,
                err |-> authenticate(auth.token, now).err]
    /\ UNCHANGED <<groups, more, slept, core, waitvars, bg, hook, calc>>

\* The admin UI's authentication backend while time passes.
NextAuth ==
    \/ Tick
    \/ \E u \in Users, ok \in BOOLEAN, life \in 1..MaxTokenLife : AdminLogin(u, ok, life)
    \/ AdminLogout
    \/ AdminAuthenticate

SpecAuth == Init /\ [][NextAuth]_vars

\* The dispatchers called by occurrence id, while occurrences are created,
\* pass and are deleted and the tracking flags change.
NextOccurrence ==
    \/ Tick
    \/ \E g \in Managed, c \in Crons \cup {NoCron} : UpdateGameSessionSchedule(g, c)
    \/ \E g \in Managed, k \in Kinds, v \in BOOLEAN : SetTracking(g, k, v)
    \/ \E g \in Managed : FireGameSessionSchedule(g)
    \/ \E g \in Managed, attOk \in BOOLEAN, foodOk \in BOOLEAN :
           FireGameSessionReminder(g, attOk, foodOk)
    \/ \E r \in rows : DeleteOccurrence(r)
    \/ \E id \in 1..MaxDeleteId, k \in Kinds, coll \in Colls :
           DispatchReminder(id, k, coll)

SpecOccurrence == Init /\ [][NextOccurrence]_vars

\* The dispatchers called with and without a session of the caller.
NextSession ==
    \/ Tick
    \/ \E g \in Managed, c \in Crons \cup {NoCron} : UpdateGameSessionSchedule(g, c)
    \/ \E g \in Managed, k \in Kinds, v \in BOOLEAN : SetTracking(g, k, v)
    \/ \E r \in rows : DeleteOccurrence(r)
    \/ \E id \in 1..MaxDeleteId, k \in Kinds, coll \in Colls, given \in BOOLEAN :
           SendReminderWithSession(id, k, coll, given)

SpecSession == Init /\ [][NextSession]_vars

\* ================================================================ claims

\* C1: N concurrent get-or-create calls for the same group leave exactly one
\* occurrence row for the computed date and none of them surfaces a
\* uniqueness violation (a losing insert is caught and the row re-read).
C1_IdempotentOccurrenceCreation ==
    /\ \A p \in Procs : pc[p] # "raised"
    /\ \A r1 \in rows, r2 \in rows :
           (r1.group_id = r2.group_id /\ r1.timestamp = r2.timestamp) => r1.id = r2.id

\* C2: in every reachable state there is at most one occurrence row per
\* (group, occurrence date).
C2_OneOccurrencePerDate ==
    \A r1 \in rows, r2 \in rows :
        (r1.group_id = r2.group_id /\ r1.timestamp = r2.timestamp) => r1 = r2

\* a second insert for a date that already has its row was attempted and
\* rejected
C2_Witness ==
    \E p \in Procs :
        /\ pc[p] = "raised"
        /\ \E r \in rows : r.group_id = pend[p].g /\ r.timestamp = pend[p].ts

\* C3: when an occurrence of the group with timestamp >= now exists,
\* get-or-create returns the earliest such occurrence and inserts no row,
\* whatever the group's current rule is.
C3_ReturnsEarliestFuture ==
    [][\A g \in Managed :
          (\E r \in rows : r.group_id = g /\ r.timestamp >= now) =>
              /\ \A p \in Procs :
                     GocQuery(p, g) =>
                         /\ rows' = rows
                         /\ pc'[p] = "done"
                         /\ ret'[p] \in rows
                         /\ ret'[p].group_id = g
                         /\ ret'[p].timestamp >= now
                         /\ \A r \in rows :
                                (r.group_id = g /\ r.timestamp >= now)
                                    => ret'[p].timestamp <= r.timestamp
              /\ LET r0 == get_or_create_next_game_session_event(
                               Cur, g, cron[g], now)
                 IN  /\ r0.rows = rows
                     /\ r0.raised = "none"
                     /\ r0.ret \in rows
                     /\ r0.ret.group_id = g
                     /\ \A r \in rows :
                            (r.group_id = g /\ r.timestamp >= now)
                                => r0.ret.timestamp <= r.timestamp
      ]_vars

\* a call has just returned the earlier of two future occurrences
C3_Witness ==
    \E p \in Procs :
        /\ last.op = "goc_query"
        /\ pc[p] = "done"
        /\ ret[p] \in rows
        /\ ret[p].timestamp >= now
        /\ \E r \in rows : r.group_id = ret[p].group_id /\ r.timestamp > ret[p].timestamp

\* C4: when no future occurrence exists and the rule yields no next time,
\* get-or-create returns None without raising and without inserting a row,
\* and every caller that got None (schedule sync, reminder sending, the admin
\* reminder action) completes without an exception.
C4_NoneIsNormalOutcome ==
    /\ \A g \in Managed :
           (/\ \A r \in rows : ~(r.group_id = g /\ r.timestamp >= now)
            /\ cron[g] = NoCron)
               => LET r0 == get_or_create_next_game_session_event(
                                Cur, g, cron[g], now)
                  IN  r0.ret = NoRow /\ r0.raised = "none" /\ r0.rows = rows
    /\ last.none => last.err = "none"

\* C5: the job store holds at most one schedule per schedule id, and after a
\* completed sync of a group, running the sync again with the same rule, lead
\* and occurrences leaves the ids, triggers and paused flags as they are.
C5_UpsertIdempotent ==
    /\ \A s1 \in scheds, s2 \in scheds : s1.id = s2.id => s1 = s2
    /\ \A g \in Managed :
           (/\ last.op \in {"set_cron", "set_reminder", "fire_session"}
            /\ last.g = g
            /\ last.err = "none")
               => LET again == update_group_schedules_body(
                                   Cur, g, cron[g], lead[g], now)
                      view(S) == {[id |-> s.id, trigger |-> s.trigger,
                                   paused |-> s.paused] : s \in S}
                  IN  /\ again.err = "none"
                      /\ view(again.scheds) = view(scheds)
                      /\ again.rows = rows

\* C6: after a completed sync of a group, the game session schedule is present
\* and unpaused with the group's current rule as its trigger if the group has
\* a rule, and no unpaused game session schedule exists if it has none.
C6_SessionScheduleFollowsRule ==
    \A g \in Managed :
        (/\ last.op \in {"set_cron", "set_reminder", "fire_session"}
         /\ last.g = g
         /\ last.err = "none")
            => IF cron[g] # NoCron
               THEN \E s \in scheds :
                        /\ s.id = game_session_schedule_id(g)
                        /\ ~s.paused
                        /\ s.trigger = CronTrigger(cron[g])
               ELSE ~\E s \in scheds :
                        s.id = game_session_schedule_id(g) /\ ~s.paused

C8_NoRetroactiveReminder ==
    \A g \in Managed :
        (/\ last.op \in {"set_cron", "set_reminder", "fire_session"}
         /\ last.g = g
         /\ last.err = "none")
            => \A r \in rows :
                   (/\ r.group_id = g
                    /\ r.timestamp >= now
                    /\ r.timestamp - lead[g] < now)
                       => ~\E s \in scheds :
                              /\ s.id = game_session_reminder_schedule_id(g)
                              /\ ~s.paused
                              /\ s.trigger.run_time = r.timestamp - lead[g]

\* C9: in every state, for food and for attendance alike, the next occurrence
\* of a group that tracks the kind has an unpaused reminder schedule whose
\* fire time is the occurrence's reminder time, or a paused reminder schedule
\* while that reminder time has elapsed.
C9_TrackedOccurrenceHasReminderJob ==
    \A g \in Managed, k \in Kinds :
        track[g][k] =>
            \A r \in rows :
                (/\ r.group_id = g
                 /\ r.timestamp >= now
                 /\ \A q \in rows : (q.group_id = g /\ q.timestamp >= now)
                                        => r.timestamp <= q.timestamp)
                    => \E s \in scheds :
                           /\ s.id = game_session_reminder_schedule_id(g)
                           /\ \/ ~s.paused /\ s.next_fire_time = r.timestamp - lead[g]
                              \/ s.paused /\ r.timestamp - lead[g] <= now

\* C10: a reminder dispatch sends no reminder of a kind whose tracking is
\* switched off, sends the reminder of the kind that is still tracked, and
\* attempts each kind whatever happened to the other.
C10_IndependentReminderKinds ==
    last.op \in {"fire_reminder", "trigger_reminder"} =>
        /\ ~track[last.g]["food"] => last.food # "sent"
        /\ ~track[last.g]["attendance"] => last.att # "sent"
        /\ last.att = "raised" => last.food # "not_attempted"

\* C11: once a group is deleted no schedule with an id derived from it is in
\* the job store, and once an occurrence is deleted no reminder schedule for
\* its reminder time is.
C11_NoJobForDeletedEntity ==
    [][/\ \A g \in Groups \ groups :
              ~\E s \in scheds : s.id \in {game_session_schedule_id(g),
                                           game_session_reminder_schedule_id(g)}
       /\ \A g \in Managed :
              DeleteGroup(g) =>
                  ~\E s \in scheds' : s.id \in {game_session_schedule_id(g),
                                                game_session_reminder_schedule_id(g)}
       /\ \A r \in rows :
              DeleteOccurrence(r) =>
                  ~\E s \in scheds' :
                       /\ s.id = game_session_reminder_schedule_id(r.group_id)
                       /\ s.trigger.run_time = reminder_datetime(r, lead[r.group_id])
      ]_vars

\* C12: a sync of a group never takes a schedule of the group out of the job
\* store, and it leaves paused every existing schedule that should no longer
\* fire: the game session schedule when the group has no rule, the reminder
\* schedule when the reminder time of the next occurrence has passed.
C12_SyncPausesNeverRemoves ==
    [][\A g \in Managed :
          (/\ last'.op \in {"set_cron", "set_reminder", "fire_session"}
           /\ last'.g = g)
              => /\ \A s \in scheds :
                        s.id \in {game_session_schedule_id(g),
                                  game_session_reminder_schedule_id(g)}
                            => \E s2 \in scheds' : s2.id = s.id
                 /\ (/\ cron'[g] = NoCron
                     /\ \E s \in scheds : s.id = game_session_schedule_id(g))
                        => \E s2 \in scheds' :
                               s2.id = game_session_schedule_id(g) /\ s2.paused
                 /\ (/\ \E s \in scheds : s.id = game_session_reminder_schedule_id(g)
                     /\ \E r \in rows' :
                            /\ r.group_id = g
                            /\ r.timestamp >= now
                            /\ r.timestamp - lead'[g] < now)
                        => \E s2 \in scheds' :
                               s2.id = game_session_reminder_schedule_id(g) /\ s2.paused
      ]_vars

\* C13: a dispatch for the id of an occurrence that is no longer stored ends
\* without an exception, does not call the notification collaborator and
\* changes neither the occurrences nor the job store.
C13_MissingOccurrenceIsNoOp ==
    [][\A id \in 1..MaxDeleteId, k \in Kinds, coll \in Colls :
           (DispatchReminder(id, k, coll) /\ ~\E r \in rows : r.id = id) =>
               /\ last'.err = "none"
               /\ last'.att \notin Colls /\ last'.food \notin Colls
               /\ rows' = rows /\ nextId' = nextId /\ scheds' = scheds
      ]_vars

C13_Witness ==
    /\ last.op = "dispatch"
    /\ "not_found" \in {last.att, last.food}
    /\ ~\E r \in rows : r.id = last.g
    /\ last.g < nextId

\* C14: a dispatch calls the notification collaborator only for a stored
\* occurrence whose time is not before now and whose parent has the flag of
\* the reminder's kind on.
C14_DelegatesOnlyFreshAndEnabled ==
    [][\A id \in 1..MaxDeleteId, k \in Kinds, coll \in Colls :
           (DispatchReminder(id, k, coll)
               /\ (last'.att \in Colls \/ last'.food \in Colls)) =>
               \E r \in rows :
                   /\ r.id = id
                   /\ r.timestamp >= now
                   /\ track[r.group_id][k]
      ]_vars

C14_Witness ==
    /\ last.op = "dispatch"
    /\ "stale" \in {last.att, last.food}
    /\ \E r \in rows : r.id = last.g /\ r.timestamp < now /\ track[r.group_id]["food"]
                       /\ track[r.group_id]["attendance"]

\* C15: no exception of the notification collaborator leaves a reminder
\* dispatch or the game session reminder job.
C15_CollaboratorExceptionCaught ==
    last.op \in {"dispatch", "fire_reminder"} =>
        last.err \notin {"DiscordError", "TimeoutError"}

\* C16: when the wait for the Discord bot times out inside the collaborator
\* of a dispatch that reaches it, the dispatch ends with TimeoutError for its
\* caller and the reminder does not count as sent.
C16_TimeoutPropagates ==
    [][\A id \in 1..MaxDeleteId, k \in Kinds :
           (DispatchReminder(id, k, "timeout")
               /\ \E r \in rows : r.id = id /\ r.timestamp >= now
                                  /\ track[r.group_id][k]) =>
               /\ last'.err = "TimeoutError"
               /\ "sent" \notin {last'.att, last'.food}
      ]_vars

C16_Witness ==
    /\ last.op = "dispatch"
    /\ last.err = "TimeoutError"
    /\ "timeout" \in {last.att, last.food}

\* C17: each wait loop sleeps at most its fixed number of times, goes on only
\* when its last look at the awaited condition saw it hold, ends with a
\* TimeoutError only when all its attempts found it false, and always ends.
C17_WaitLoopsAreBounded ==
    /\ [](\A w \in Waits :
              /\ polls[w] <= MaxPolls(w)
              /\ wpc[w] = "proceeded" => seen[w]
              /\ wpc[w] = "timeout" => (polls[w] = MaxPolls(w) /\ ~seen[w]))
    /\ \A w \in Waits : (wpc[w] = "loop") ~> (wpc[w] \in {"proceeded", "timeout"})

C17_Witness ==
    /\ wpc["on_ready"] = "timeout" /\ polls["on_ready"] = OnReadyAttempts
    /\ wpc["wait_for_discord_to_start"] = "proceeded"
    /\ polls["wait_for_discord_to_start"] > 0
    /\ wpc["start_scheduler"] = "timeout"
    /\ polls["start_scheduler"] = DiscordBotStartupTimeout

\* C18: a crash of the supervised task makes exactly one more init and
\* leaves a running task and every stored schedule in place; a normal stop
\* makes no init; so the inits are always one more than the crashes.
C18_OneReinitPerCrash ==
    [][/\ bg'.crashes = bg.crashes + 1 =>
              /\ bg'.inits = bg.inits + 1
              /\ bg'.state = "running"
              /\ scheds' = scheds
       /\ (bg.state = "running" /\ bg'.ended = "normal" /\ bg' # bg) =>
              /\ bg'.inits = bg.inits
              /\ bg'.state = "stopped"
       /\ bg.state # "none" => bg.inits = bg.crashes + 1
      ]_vars

C18_Witness ==
    /\ last.op = "task_done"
    /\ bg.ended = "exception"
    /\ bg.state = "running"
    /\ bg.inits = 2
    /\ scheds # {}

\* C19: a write hook that has spawned its sync can return at once, whether
\* or not the sync has run.
C19_HookReturnsWithoutWaiting ==
    hook.pc = "in_portal" => ENABLED HookReturn

\* C20: a sync that fails leaves the write that triggered it in place, and
\* an update of all groups runs the sync of every group even when the sync of
\* one of them fails.
C20_FailedSyncIsContained ==
    [][/\ \A g \in Managed, c \in Crons \cup {NoCron} :
              UpdateGameSessionSchedule(g, c) => cron'[g] = c
       /\ OnReady => groups_reached(Cur, groups, cron, lead, now) = groups
      ]_vars

\* C21: no group ever has a malformed rule stored, and no sync or firing
\* ends with the error of a malformed rule.
C21_MalformedRuleRejectedAtSave ==
    /\ \A g \in groups : cron[g] # Malformed
    /\ last.err # "ValueError"

C23_IntervalNextIsAfterReference ==
    calc.fn = "next_event" =>
        /\ calc.out # NoDate => calc.out > calc.ref
        /\ calc.rule.interval # "Months" =>
               LET tr == get_event_calendar_interval_trigger(calc.rule)
                   first == IF tr.start > calc.ref THEN tr.start
                            ELSE tr.start + tr.days *
                                     (((calc.ref - tr.start) \div tr.days) + 1)
               IN  calc.out = ClipToEnd(tr, first)

\* C24: the reminder for an event of a rule fires days_before days before the
\* day of the event, at the reminder's time of day.
C24_ReminderIsDaysBeforeOccurrence ==
    (calc.fn = "reminder" /\ calc.occ # NoDate) =>
        /\ calc.out = calc.occ - calc.lead
        /\ calc.hour = calc.time_of_day

\* C25: authenticate answers True for a session with an unexpired token of
\* the admin user and False, raising nothing, for a session without token or
\* with an expired token; logout empties the session and answers True.
C25_AuthenticateAnswersWithoutRaising ==
    /\ auth.op = "authenticate" =>
           /\ (auth.token # NoToken /\ auth.token.sub = "admin"
                   /\ auth.token.exp >= auth.at) => auth.out = "True"
           /\ (auth.token = NoToken \/ auth.token.exp < auth.at) =>
                  (auth.out = "False" /\ auth.err = "none")
    /\ auth.op = "logout" => (auth.token = NoToken /\ auth.out = "True")

\* C26: the sync that the write hook starts for a newly stored game session
\* event works on the schedule ids of the group that owns the event, and the
\* sync for a written group on the ids of that group.
C26_HookSyncsTheOwningGroup ==
    [][/\ \A r \in rows' \ rows :
              schedule_ids_of(EventTarget(r)) =
                  {game_session_schedule_id(r.group_id),
                   game_session_reminder_schedule_id(r.group_id)}
       /\ \A g \in Managed :
              cron'[g] # cron[g] =>
                  schedule_ids_of(GroupTarget(g)) =
                      {game_session_schedule_id(g),
                       game_session_reminder_schedule_id(g)}
      ]_vars

\* C27: start_scheduler does not give up while the Discord client is ready,
\* and on_ready does not give up once start_scheduler has seen the client
\* ready and gone on to start the scheduler.
C27_StartupWaitsDoNotTimeOut ==
    [][/\ (wpc["start_scheduler"] = "loop" /\ wpc'["start_scheduler"] = "timeout")
              => ~ready["discord"]
       /\ (wpc["on_ready"] = "loop" /\ wpc'["on_ready"] = "timeout")
              => wpc["start_scheduler"] # "proceeded"
      ]_vars

\* C28: after a dispatch the session the dispatcher opened itself is closed,
\* whatever the exit path, and a session given by the caller is not closed.
C28_OwnSessionClosedOnEveryPath ==
    /\ sess.opened => sess.closed
    /\ sess.given => ~sess.closed

C30_DailyImageLimitHolds ==
    /\ img.count <= DefaultImageLimit
    /\ \A p \in Requesters : img.pc[p] # "idle" => img.seen[p] > 0

====
